---- MODULE Spec2Model ----
\* Model of data_integrity_curr_vs_prior_peak_chart.ipynb: the notebook's
\* analytic cells (cumulative -> incremental counts, recalibration, 7-row
\* moving average per county, peak / recent average / ratio per county).
\*
\* Numbers.  A pandas float cell is modelled exactly: either a rational n/d in
\* lowest terms (k = "fin"), or one of the IEEE-754 specials NaN, +inf, -inf.
\* Rounding error of binary floating point is outside the model.
EXTENDS Integers, Sequences, FiniteSets, TLC

VARIABLES csv, covid_df, counties_df, county_prev_peak, county_curr_ave,
          case_column, pc, saved

vars == <<csv, covid_df, counties_df, county_prev_peak, county_curr_ave,
          case_column, pc, saved>>

-----------------------------------------------------------------------------
\* Floats

RECURSIVE GCD(_, _)
GCD(a, b) == IF b = 0 THEN a ELSE GCD(b, a % b)

Abs(x) == IF x < 0 THEN -x ELSE x

\* the rational n/d (d # 0) in lowest terms with a positive denominator
Fin(n, d) ==
    LET s == IF d < 0 THEN -1 ELSE 1
        g == GCD(Abs(n), Abs(d))
    IN  [k |-> "fin", n |-> (s * n) \div g, d |-> (s * d) \div g]

NaN  == [k |-> "nan",  n |-> 0, d |-> 1]
PInf == [k |-> "inf",  n |-> 0, d |-> 1]
NInf == [k |-> "ninf", n |-> 0, d |-> 1]
Zero == Fin(0, 1)

IsNaN(x) == x.k = "nan"
IsFin(x) == x.k = "fin"

\* float arithmetic on cells that are finite or NaN (NaN propagates)
FAdd(x, y) == IF IsNaN(x) \/ IsNaN(y) THEN NaN
              ELSE Fin(x.n * y.d + y.n * x.d, x.d * y.d)
FSub(x, y) == IF IsNaN(x) \/ IsNaN(y) THEN NaN
              ELSE Fin(x.n * y.d - y.n * x.d, x.d * y.d)
FMul(x, y) == IF IsNaN(x) \/ IsNaN(y) THEN NaN
              ELSE Fin(x.n * y.n, x.d * y.d)
FLess(x, y) == x.n * y.d < y.n * x.d

\* x / y of numpy float64 operands: IEEE-754 division, which raises nothing
\* (a zero divisor gives nan or +-inf and a RuntimeWarning)
FDiv(x, y) ==
    IF IsNaN(x) \/ IsNaN(y) THEN NaN
    ELSE IF y.n = 0
         THEN IF x.n = 0 THEN NaN ELSE IF x.n > 0 THEN PInf ELSE NInf
         ELSE Fin(x.n * y.d, x.d * y.n)

-----------------------------------------------------------------------------
\* Dates: a parsed date is its day number, counted from 2020-01-01

MonthStart == <<0, 31, 60, 91, 121, 152, 182, 213, 244, 274, 305, 335>>

Day(y, m, d) ==
    IF y = 2020 THEN MonthStart[m] + d - 1
    ELSE 366 + (IF m <= 2 THEN MonthStart[m] ELSE MonthStart[m] - 1) + d - 1

RecalDate == Day(2020, 6, 1)      \* '2020-06-01'
PeakDate  == Day(2020, 10, 1)     \* '2020-10-01'
CurrDate  == Day(2021, 2, 6)      \* '2021-02-06'

SMAWindow == 7                    \* rolling(window=7)
CurrRows  == 7                    \* [-7:]

-----------------------------------------------------------------------------
\* Sequence helpers

Range(s) == {s[i] : i \in DOMAIN s}

RECURSIVE SelectIdx(_, _)
\* the positions from i on at which the boolean mask holds, ascending
SelectIdx(mask, i) ==
    IF i > Len(mask) THEN <<>>
    ELSE IF mask[i] THEN <<i>> \o SelectIdx(mask, i + 1)
         ELSE SelectIdx(mask, i + 1)

RECURSIVE FSum(_)
FSum(s) == IF s = <<>> THEN Zero ELSE FAdd(Head(s), FSum(Tail(s)))

\* s[-n:]
LastN(s, n) == IF Len(s) <= n THEN s ELSE SubSeq(s, Len(s) - n + 1, Len(s))

\* unique(): the distinct values in order of first appearance
RECURSIVE Unique(_)
Unique(s) ==
    IF s = <<>> THEN <<>>
    ELSE LET r == Unique(SubSeq(s, 1, Len(s) - 1))
             x == s[Len(s)]
         IN  IF x \in Range(r) THEN r ELSE Append(r, x)

-----------------------------------------------------------------------------
\* pandas: a data frame is a function from column name to the sequence of the
\* column's cells, row k of the frame having index label k (the RangeIndex of
\* read_csv); a Series is its index labels and its values

NRows(df) == Len(df["fips"])

\* df[mask][col]: the rows at which the boolean mask holds, as a Series that
\* keeps their labels
Masked(df, col, mask) ==
    LET idx == SelectIdx(mask, 1)
    IN  [index |-> idx, values |-> [p \in DOMAIN idx |-> df[col][idx[p]]]]

\* the mean of W cells, NaN when one of them is NaN
WindowMean(vals, i, W) ==
    LET s == FSum(SubSeq(vals, i - W + 1, i))
    IN  IF IsNaN(s) THEN NaN ELSE Fin(s.n, s.d * W)

\* series.rolling(window=W).mean(): min_periods defaults to W, so a position
\* with fewer than W cells up to it is NaN
RollingMean(ser, W) ==
    [index  |-> ser.index,
     values |-> [i \in DOMAIN ser.values |->
                   IF i < W THEN NaN ELSE WindowMean(ser.values, i, W)]]

RECURSIVE Concat(_)
\* pd.concat(list of Series)
Concat(list) ==
    IF list = <<>> THEN [index |-> <<>>, values |-> <<>>]
    ELSE LET r == Concat(Tail(list))
         IN  [index  |-> Head(list).index \o r.index,
              values |-> Head(list).values \o r.values]

\* df[col] = series: the cells are aligned on the index label, a row whose
\* label the series lacks gets NaN
Aligned(df, ser) ==
    [k \in 1..NRows(df) |->
        LET P == {p \in DOMAIN ser.index : ser.index[p] = k}
        IN  IF P = {} THEN NaN ELSE ser.values[CHOOSE p \in P : TRUE]]

\* the cells of a sequence that are not NaN (skipna=True)
NotNa(vals) == SelectSeq(vals, LAMBDA x : ~IsNaN(x))

RECURSIVE FMax(_)
FMax(s) ==
    IF Len(s) = 1 THEN s[1]
    ELSE LET m == FMax(Tail(s)) IN IF FLess(m, Head(s)) THEN Head(s) ELSE m

\* A reduction returns a scalar: numpy.float64 (np = TRUE) when a cell is
\* left after skipping NaN, the Python float nan (np = FALSE) otherwise
NpScalar(x) == [v |-> x, np |-> TRUE]
PyNaN       == [v |-> NaN, np |-> FALSE]

\* series.max()
SeriesMax(vals) ==
    LET d == NotNa(vals) IN IF d = <<>> THEN PyNaN ELSE NpScalar(FMax(d))

\* series.mean()
SeriesMean(vals) ==
    LET d == NotNa(vals)
        s == FSum(d)
    IN  IF d = <<>> THEN PyNaN ELSE NpScalar(Fin(s.n, s.d * Len(d)))

\* groupby(key)[col].diff(): the cell minus the cell of the previous row of
\* the same group, NaN on the first row of a group
GroupDiff(df, key, col) ==
    [k \in 1..NRows(df) |->
        LET P == {j \in 1..(k - 1) : df[key][j] = df[key][k]}
        IN  IF P = {} THEN NaN
            ELSE FSub(df[col][k], df[col][CHOOSE j \in P : \A i \in P : i <= j])]

\* series.fillna(v)
FillNa(vals, v) == [k \in DOMAIN vals |-> IF IsNaN(vals[k]) THEN v ELSE vals[k]]

\* np.where(cond, a, b), elementwise
NpWhere(cond, a, b) == [k \in DOMAIN cond |-> IF cond[k] THEN a[k] ELSE b[k]]

\* series * m
Times(vals, m) == [k \in DOMAIN vals |-> FMul(vals[k], m)]

\* df with column col set to vals (added when new)
SetColumn(df, col, vals) ==
    [c \in (DOMAIN df) \cup {col} |-> IF c = col THEN vals ELSE df[c]]

-----------------------------------------------------------------------------
\* The notebook's computations

\* cell "counties_df": one row per (fips, county, state) group, the groups in
\* ascending key order.  County and state names are a function of the fips
\* code in the data, so a group is a fips code.
SortedKeys(keys) ==
    LET S == Range(keys)
    IN  CHOOSE q \in [1..Cardinality(S) -> S] :
            /\ Range(q) = S
            /\ \A i, j \in DOMAIN q : i < j => q[i] < q[j]

\* seeded fault: the difference taken down the whole table, not within a county
DailyCasesAcross(df) ==
    FillNa([k \in 1..NRows(df) |->
               IF k = 1 THEN NaN ELSE FSub(df["cases"][k], df["cases"][k - 1])],
           Zero)

\* seeded fault: a missing count replaced by 0 before the difference is taken
DailyCasesFillFirst(df) ==
    FillNa(GroupDiff(SetColumn(df, "cases", FillNa(df["cases"], Zero)),
                     "fips", "cases"),
           Zero)

\* covid_df.groupby('fips')['cases'].diff().fillna(0)
DailyCases(df) == FillNa(GroupDiff(df, "fips", "cases"), Zero)

\* the multiplier of each recalibrated column before '2020-06-01', and the
\* multiplier all of them share from that date on
EarlyFactor(col) ==
    CASE col = "daily_cases_low"  -> Fin(4, 1)
      [] col = "daily_cases_med"  -> Fin(55, 10)
      [] col = "daily_cases_high" -> Fin(7, 1)
LateFactor == Fin(21, 10)

RecalColumns == <<"daily_cases_low", "daily_cases_med", "daily_cases_high">>

\* np.where(covid_df['date'] < '2020-06-01', covid_df['cases_new']*a,
\*          covid_df['cases_new']*2.1)
Recalibrated(df, col) ==
    NpWhere([k \in 1..NRows(df) |-> df["date"][k] < RecalDate],
            Times(df["cases_new"], EarlyFactor(col)),
            Times(df["cases_new"], LateFactor))

\* def safe_div(x, y): x/y raises ZeroDivisionError only when Python itself
\* divides, that is when neither operand is a numpy scalar and y is 0;
\* numpy's division returns the IEEE-754 result instead
safe_div(x, y) ==
    IF ~x.np /\ ~y.np /\ IsFin(y.v) /\ y.v.n = 0
    THEN Zero
    ELSE FDiv(x.v, y.v)

\* the four calls of the last analytic cell: the input column and the
\* counties_df column that receives the returned list
CallColumns == <<"daily_cases", "daily_cases_low", "daily_cases_med", "daily_cases_high">>

\* seeded fault: one rolling mean down the whole table
CountySMAWhole(df, case_col) ==
    <<RollingMean(Masked(df, case_col, [k \in 1..NRows(df) |-> TRUE]), SMAWindow)>>

\* add_sma_and_ratio, first loop and the assignment after it: the rolling
\* mean of every county's rows, concatenated and stored in case_col itself
CountySMA(df, case_col) ==
    LET U == Unique(df["fips"])
    IN  [u \in DOMAIN U |->
            RollingMean(Masked(df, case_col,
                               [k \in 1..NRows(df) |-> df["fips"][k] = U[u]]),
                        SMAWindow)]

\* seeded fault: the call smooths every case column of the frame
SmoothedAll(df, case_col) ==
    [c \in DOMAIN df |->
        IF c \in Range(CallColumns)
        THEN Aligned(df, Concat(CountySMA(df, c)))
        ELSE df[c]]

Smoothed(df, case_col) ==
    SetColumn(df, case_col, Aligned(df, Concat(CountySMA(df, case_col))))

\* seeded fault: the reference window includes 2020-10-01
PrevPeakUpTo(df, case_col, fips_) ==
    SeriesMax(Masked(df, case_col,
                     [k \in 1..NRows(df) |-> df["fips"][k] = fips_
                                              /\ df["date"][k] <= PeakDate]).values)

\* seeded fault: the comparison window includes 2021-02-06
CurrAveUpTo(df, case_col, fips_) ==
    SeriesMean(LastN(Masked(df, case_col,
                            [k \in 1..NRows(df) |-> /\ df["fips"][k] = fips_
                                                     /\ df["date"][k] > PeakDate
                                                     /\ df["date"][k] <= CurrDate]).values,
                     CurrRows))

\* add_sma_and_ratio, second loop: over counties_df['FIPS'].unique()
PrevPeak(df, case_col, fips_) ==
    SeriesMax(Masked(df, case_col,
                     [k \in 1..NRows(df) |-> df["fips"][k] = fips_
                                              /\ df["date"][k] < PeakDate]).values)

CurrAve(df, case_col, fips_) ==
    SeriesMean(LastN(Masked(df, case_col,
                            [k \in 1..NRows(df) |-> /\ df["fips"][k] = fips_
                                                     /\ df["date"][k] > PeakDate
                                                     /\ df["date"][k] < CurrDate]).values,
                     CurrRows))

\* the list add_sma_and_ratio returns
Ratios(ave, peak) == [i \in DOMAIN ave |-> safe_div(ave[i], peak[i])]

RatioColumn(case_col) ==
    CASE case_col = "daily_cases"      -> "Curr to Peak"
      [] case_col = "daily_cases_low"  -> "Curr to Peak: Low Recalibration"
      [] case_col = "daily_cases_med"  -> "Curr to Peak: Med Recalibration"
      [] case_col = "daily_cases_high" -> "Curr to Peak: High Recalibration"

-----------------------------------------------------------------------------
\* The CSV files the notebook is run on

RegionList == <<1, 2>>
Regions    == Range(RegionList)

\* The reporting dates of the long tables: a few days around each of the three
\* dates the notebook compares with, the dataset ending on any of them
Pool ==
    << Day(2020, 5, 30), Day(2020, 5, 31), Day(2020, 6, 1),  Day(2020, 6, 2),
       Day(2020, 9, 27), Day(2020, 9, 28), Day(2020, 9, 29), Day(2020, 9, 30),
       Day(2020, 10, 1),
       Day(2020, 10, 2), Day(2020, 10, 3), Day(2020, 10, 4), Day(2020, 10, 5),
       Day(2021, 2, 2),  Day(2021, 2, 3),  Day(2021, 2, 4),  Day(2021, 2, 5),
       Day(2021, 2, 6),  Day(2021, 2, 7) >>

DateAt(p) == IF p <= Len(Pool) THEN Pool[p] ELSE Pool[Len(Pool)] + (p - Len(Pool))

MaxDays      == 19     \* the dataset ends on one of the first MaxDays dates
MaxShortRows == 3      \* rows of a short table

\* the position in Pool of a county's first report
Starts == {1, 4, 10}

\* cumulative count at a county's i-th report
Shapes == {"flat", "rise", "wave"}

RECURSIVE Wave(_)
Wave(i) == IF i = 1 THEN 1 ELSE Wave(i - 1) + (((i + 2) * 2) % 5) - 1

Cum(shape, i) ==
    CASE shape = "flat" -> 3
      [] shape = "rise" -> i * i
      [] shape = "wave" -> Wave(i)

\* the (date position, county) pairs of a table's rows, in file order
RECURSIVE ByDate(_, _, _)
ByDate(start, last, p) ==
    IF p > last THEN <<>>
    ELSE [i \in DOMAIN SelectSeq(RegionList, LAMBDA f : start[f] <= p) |->
             <<p, SelectSeq(RegionList, LAMBDA f : start[f] <= p)[i]>>]
         \o ByDate(start, last, p + 1)

RECURSIVE ByRegion(_, _, _)
ByRegion(start, last, r) ==
    IF r > Len(RegionList) THEN <<>>
    ELSE [i \in 1..(IF last < start[RegionList[r]] THEN 0
                    ELSE last - start[RegionList[r]] + 1) |->
             <<start[RegionList[r]] + i - 1, RegionList[r]>>]
         \o ByRegion(start, last, r + 1)

Extras == {"none", "wave"}

\* the cell of a file's cases_new column at county f's i-th report: numbers
\* of their own, 0 in the early reports of county 2
NewCases(extra, f, i) == IF f = 2 /\ i < 9 THEN 0 ELSE Cum(extra, i) + f - 1

\* a file of the columns fips, date and cases, and of a column cases_new
\* unless extra = "none"
LongTable(start, shape, last, layout, extra) ==
    LET rows == IF layout = "bydate" THEN ByDate(start, last, 1)
                ELSE ByRegion(start, last, 1)
        N    == DOMAIN rows
        nth(k) == rows[k][1] - start[rows[k][2]] + 1
        base == [c \in {"fips", "date", "cases"} |->
                  CASE c = "fips"  -> [k \in N |-> rows[k][2]]
                    [] c = "date"  -> [k \in N |-> DateAt(rows[k][1])]
                    [] c = "cases" -> [k \in N |-> Fin(Cum(shape[rows[k][2]], nth(k)), 1)]]
    IN  IF extra = "none" THEN base
        ELSE SetColumn(base, "cases_new",
                       [k \in N |-> Fin(NewCases(extra, rows[k][2], nth(k)), 1)])

LongTables ==
    { LongTable(start, shape, last, layout, extra) :
        start \in [Regions -> Starts], shape \in [Regions -> Shapes],
        last \in 0..MaxDays, layout \in {"bydate", "byregion"}, extra \in Extras }

\* The short tables: every table of at most MaxShortRows rows on consecutive
\* days around '2020-06-01', each row of any county and with any count of
\* ShortCounts or a missing count
ShortCounts == {NaN, Fin(0, 1), Fin(2, 1), Fin(5, 1)}

ShortTable(d0, cells, extra) ==
    LET N    == DOMAIN cells
        base == [c \in {"fips", "date", "cases"} |->
                  CASE c = "fips"  -> [k \in N |-> cells[k][1]]
                    [] c = "date"  -> [k \in N |-> d0 + k - 1]
                    [] c = "cases" -> [k \in N |-> cells[k][2]]]
    IN  IF extra = "none" THEN base
        ELSE SetColumn(base, "cases_new", [k \in N |-> Fin(k, 1)])

ShortTables ==
    { ShortTable(d0, cells, extra) :
        d0 \in {RecalDate - 2, RecalDate - 1},
        cells \in UNION {[1..n -> Regions \X ShortCounts] : n \in 0..MaxShortRows},
        extra \in {"none", "rows"} }

-----------------------------------------------------------------------------
\* The notebook run top to bottom; a cell that raises ends the run

NoColumns == [c \in {} |-> <<>>]

\* after pd.read_csv
InitOn(tables) ==
    /\ csv \in tables
    /\ covid_df = csv
    /\ counties_df = NoColumns
    /\ county_prev_peak = <<>>
    /\ county_curr_ave = <<>>
    /\ case_column = ""
    /\ pc = "counties_df"
    /\ saved = NoColumns

\* the long tables of the full date range
FullTables ==
    { LongTable(start, shape, MaxDays, layout, extra) :
        start \in [Regions -> Starts], shape \in [Regions -> Shapes],
        layout \in {"bydate", "byregion"}, extra \in Extras }

Init      == InitOn(LongTables)
InitShort == InitOn(ShortTables)
InitPerm  == InitOn(FullTables)

CountiesCell ==
    /\ pc = "counties_df"
    /\ counties_df' = SetColumn(NoColumns, "FIPS", SortedKeys(covid_df["fips"]))
    /\ pc' = "daily_cases"
    /\ UNCHANGED <<csv, covid_df, county_prev_peak, county_curr_ave, case_column, saved>>

DailyCasesCell ==
    /\ pc = "daily_cases"
    /\ covid_df' = SetColumn(covid_df, "daily_cases", DailyCases(covid_df))
    /\ pc' = "recalibrate"
    /\ UNCHANGED <<csv, counties_df, county_prev_peak, county_curr_ave, case_column, saved>>

\* covid_df['cases_new'] raises KeyError when the frame has no such column
RecalibrateCell ==
    /\ pc = "recalibrate"
    /\ IF "cases_new" \in DOMAIN covid_df
       THEN /\ covid_df' =
                 SetColumn(SetColumn(SetColumn(covid_df,
                    RecalColumns[1], Recalibrated(covid_df, RecalColumns[1])),
                    RecalColumns[2], Recalibrated(covid_df, RecalColumns[2])),
                    RecalColumns[3], Recalibrated(covid_df, RecalColumns[3]))
            /\ pc' = "ratios"
       ELSE /\ covid_df' = covid_df
            /\ pc' = "KeyError"
    /\ UNCHANGED <<csv, counties_df, county_prev_peak, county_curr_ave, case_column, saved>>

\* counties_df[RatioColumn(case_col)] = add_sma_and_ratio(covid_df, case_col):
\* cvd_df is covid_df itself, so the assignment to cvd_df[case_column] is seen
\* by the second loop and by the caller; county_prev_peak and county_curr_ave
\* are the lists of the most recent call
add_sma_and_ratio(case_col) ==
    LET F == Unique(counties_df["FIPS"])
    IN  /\ covid_df' = Smoothed(covid_df, case_col)
        /\ county_prev_peak' = [i \in DOMAIN F |-> PrevPeak(covid_df', case_col, F[i])]
        /\ county_curr_ave' = [i \in DOMAIN F |-> CurrAve(covid_df', case_col, F[i])]
        /\ case_column' = case_col
        /\ counties_df' = SetColumn(counties_df, RatioColumn(case_col),
                                    Ratios(county_curr_ave', county_prev_peak'))

Called(case_col) == RatioColumn(case_col) \in DOMAIN counties_df

\* the calls in the order the cell makes them
RatioCall(i) ==
    /\ pc = "ratios"
    /\ ~Called(CallColumns[i])
    /\ \A j \in 1..(i - 1) : Called(CallColumns[j])
    /\ add_sma_and_ratio(CallColumns[i])
    /\ UNCHANGED <<csv, pc, saved>>

\* counties_df.to_csv(...)
ToCsv ==
    /\ pc = "ratios"
    /\ \A i \in DOMAIN CallColumns : Called(CallColumns[i])
    /\ saved' = counties_df
    /\ pc' = "done"
    /\ UNCHANGED <<csv, covid_df, counties_df, county_prev_peak, county_curr_ave, case_column>>

Next ==
    \/ CountiesCell
    \/ DailyCasesCell
    \/ RecalibrateCell
    \/ \E i \in DOMAIN CallColumns : RatioCall(i)
    \/ ToCsv

\* the four calls made in any order
AnyCall(i) ==
    /\ pc = "ratios"
    /\ ~Called(CallColumns[i])
    /\ add_sma_and_ratio(CallColumns[i])
    /\ UNCHANGED <<csv, pc, saved>>

NextPerm ==
    \/ CountiesCell
    \/ DailyCasesCell
    \/ RecalibrateCell
    \/ \E i \in DOMAIN CallColumns : AnyCall(i)
    \/ ToCsv

Spec      == Init /\ [][Next]_vars
SpecShort == InitShort /\ [][Next]_vars
SpecPerm  == InitPerm /\ [][NextPerm]_vars

-----------------------------------------------------------------------------
\* Properties.  An observation is a row of the file; the rows of a county
\* stand in the file in date order.

Fips(k)  == csv["fips"][k]
Cases(k) == csv["cases"][k]
Rows     == 1..Len(csv["fips"])

\* the earlier / later observations of the county of row k
Before(k) == {j \in Rows : j < k /\ Fips(j) = Fips(k)}
After(k)  == {j \in Rows : j > k /\ Fips(j) = Fips(k)}
Last(S)   == CHOOSE j \in S : \A i \in S : i <= j
First(S)  == CHOOSE j \in S : \A i \in S : j <= i

\* the incremental series is in covid_df and no call has smoothed it yet
DiffDone == "daily_cases" \in DOMAIN covid_df /\ ~Called("daily_cases")

Daily(k) == covid_df["daily_cases"][k]

\* C3: the increment is 0 at a county's first observation and, at a later
\* observation, the count minus the count of the county's previous
\* observation (both counts present), a negative difference included
C3_Increments ==
    DiffDone =>
        \A k \in Rows :
            IF Before(k) = {} THEN Daily(k) = Zero
            ELSE (IsFin(Cases(k)) /\ IsFin(Cases(Last(Before(k)))))
                 => Daily(k) = Fin(Cases(k).n - Cases(Last(Before(k))).n, 1)

\* a negative increment across an interleaved row of another county, and a
\* first observation with a positive count
C3_Witness ==
    /\ DiffDone
    /\ \E k \in Rows :
          /\ Before(k) # {} /\ Last(Before(k)) < k - 1
          /\ IsFin(Daily(k)) /\ Daily(k).n < 0
    /\ \E k \in Rows : Before(k) = {} /\ IsFin(Cases(k)) /\ Cases(k).n > 0

\* C4 as claimed: a missing count counts as 0 before differencing
C4_MissingAsZero ==
    DiffDone =>
        \A k \in Rows :
            IsNaN(Cases(k)) =>
                /\ (Before(k) # {} /\ IsFin(Cases(Last(Before(k)))))
                      => Daily(k) = Fin(0 - Cases(Last(Before(k))).n, 1)
                /\ (After(k) # {} /\ IsFin(Cases(First(After(k)))))
                      => Daily(First(After(k))) = Cases(First(After(k)))

\* C4 (amended): the increment at an observation with a missing count is 0,
\* and so is the increment at the county's next observation; no row is dropped
C4_MissingGivesZero ==
    DiffDone =>
        /\ Len(covid_df["daily_cases"]) = Len(csv["cases"])
        /\ \A k \in Rows :
              IsNaN(Cases(k)) =>
                  /\ Daily(k) = Zero
                  /\ After(k) # {} => Daily(First(After(k))) = Zero

\* a missing count between two positive counts of the same county
C4_Witness ==
    /\ DiffDone
    /\ \E k \in Rows :
          /\ IsNaN(Cases(k))
          /\ Before(k) # {} /\ IsFin(Cases(Last(Before(k)))) /\ Cases(Last(Before(k))).n > 0
          /\ After(k) # {} /\ IsFin(Cases(First(After(k)))) /\ Cases(First(After(k))).n > 0

\* the recalibration cell has run and no call has smoothed a column yet
RecalDone == pc = "ratios" /\ \A i \in DOMAIN CallColumns : ~Called(CallColumns[i])

\* C5: every recalibrated column is the raw incremental series times the
\* column's early multiplier before 2020-06-01 and times 2.1 from then on
C5_Recalibrated ==
    /\ pc # "KeyError"
    /\ RecalDone =>
          \A i \in DOMAIN RecalColumns : \A k \in Rows :
              covid_df[RecalColumns[i]][k] =
                  FMul(Daily(k), IF csv["date"][k] < RecalDate
                                 THEN EarlyFactor(RecalColumns[i]) ELSE LateFactor)

-----------------------------------------------------------------------------
\* Properties of add_sma_and_ratio

Date(k) == csv["date"][k]

RECURSIVE SumCells(_, _)
SumCells(S, vals) ==
    IF S = {} THEN Zero
    ELSE LET k == CHOOSE x \in S : TRUE
         IN  FAdd(vals[k], SumCells(S \ {k}, vals))

Mean(S, vals) ==
    LET t == SumCells(S, vals)
    IN  IF IsNaN(t) THEN NaN ELSE Fin(t.n, t.d * Cardinality(S))

\* this step is the call add_sma_and_ratio(covid_df, case_col)
Calling(case_col) ==
    ~Called(case_col) /\ RatioColumn(case_col) \in DOMAIN counties_df'

\* the rows of county f / the county of the i-th output row
RowsOf(f)   == {k \in Rows : Fips(k) = f}
CountyAt(i) == counties_df["FIPS"][i]

\* the smoothed series the most recent call left in its column
Sma(k) == covid_df[case_column][k]

\* C6: a call replaces the column by a series of the same length whose cell
\* at a county's i-th observation is the mean of that county's own 7 cells
\* i-6..i, and is undefined when the county has fewer than 7 observations up
\* to it
C6_Smoothing ==
    [][\A c \in Range(CallColumns) :
          Calling(c) =>
              /\ covid_df'["fips"] = covid_df["fips"]
              /\ Len(covid_df'[c]) = Len(covid_df[c])
              /\ \A k \in Rows :
                    LET own == {j \in RowsOf(Fips(k)) : j <= k}
                        win == {j \in own : Cardinality({m \in own : m > j}) < 7}
                    IN  IF Cardinality(own) >= 7
                        THEN covid_df'[c][k] = Mean(win, covid_df[c])
                        ELSE IsNaN(covid_df'[c][k])]_vars

\* after a call: an undefined cell that has 7 or more rows of the table above
\* it, and a defined, non-zero moving average of a county whose rows are
\* interleaved with another county's
C6_Witness ==
    /\ case_column = "daily_cases"
    /\ \E k \in Rows : k > 7 /\ IsNaN(Sma(k))
    /\ \E k \in Rows :
          /\ IsFin(Sma(k)) /\ Sma(k).n # 0
          /\ Last(Before(k)) < k - 1

\* C9: the recent average of a county is the mean of the defined moving
\* averages among the last 7 of its observations dated strictly between
\* 2020-10-01 and 2021-02-06, and is undefined when there is none
C9_RecentAverage ==
    case_column # "" =>
        /\ Range(counties_df["FIPS"]) = Range(csv["fips"])
        /\ DOMAIN county_curr_ave = DOMAIN counties_df["FIPS"]
        /\ \A i \in DOMAIN county_curr_ave :
              LET inwin == {k \in RowsOf(CountyAt(i)) :
                              Date(k) > Day(2020, 10, 1) /\ Date(k) < Day(2021, 2, 6)}
                  last7 == {k \in inwin :
                              Cardinality({m \in inwin : Date(m) > Date(k)}) < 7}
                  def   == {k \in last7 : ~IsNaN(Sma(k))}
              IN  IF def = {} THEN IsNaN(county_curr_ave[i].v)
                  ELSE county_curr_ave[i].v = Mean(def, covid_df[case_column])

\* a county with more than 7 observations in the window, the one left out
\* having a defined average that would change the mean, and with defined
\* averages dated exactly 2020-10-01 and 2021-02-06; and a county whose last
\* 7 observations in the window hold defined and undefined averages (taken
\* as 0, the undefined ones would change the mean)
C9_Witness ==
    /\ case_column # ""
    /\ \E i \in DOMAIN county_curr_ave :
          LET inwin == {k \in RowsOf(CountyAt(i)) : Date(k) > PeakDate /\ Date(k) < CurrDate}
              def   == {k \in inwin : ~IsNaN(Sma(k))}
          IN  /\ Cardinality(inwin) > 7
              /\ ~IsNaN(Sma(First(inwin)))
              /\ county_curr_ave[i].v # Mean(def, covid_df[case_column])
              /\ \E k \in RowsOf(CountyAt(i)) : Date(k) = PeakDate /\ IsFin(Sma(k))
              /\ \E k \in RowsOf(CountyAt(i)) : Date(k) = CurrDate /\ IsFin(Sma(k))
    /\ \E i \in DOMAIN county_curr_ave :
          LET inwin == {k \in RowsOf(CountyAt(i)) : Date(k) > PeakDate /\ Date(k) < CurrDate}
              last7 == {k \in inwin : Cardinality({m \in inwin : m > k}) < 7}
          IN  /\ IsFin(county_curr_ave[i].v) /\ county_curr_ave[i].v.n # 0
              /\ \E k \in last7 : IsNaN(Sma(k))

\* C10: the peak of a county is the greatest defined moving average of its own
\* observations dated before 2020-10-01, and is undefined when there is none
C10_Peak ==
    case_column # "" =>
        /\ DOMAIN county_prev_peak = DOMAIN counties_df["FIPS"]
        /\ \A i \in DOMAIN county_prev_peak :
              LET def == {k \in RowsOf(CountyAt(i)) :
                            Date(k) < Day(2020, 10, 1) /\ ~IsNaN(Sma(k))}
              IN  IF def = {} THEN IsNaN(county_prev_peak[i].v)
                  ELSE /\ \E k \in def : county_prev_peak[i].v = Sma(k)
                       /\ \A k \in def : ~FLess(county_prev_peak[i].v, Sma(k))

\* a county whose peak is not its last average before 2020-10-01 and is less
\* than an earlier average of another county, whose own peak is less than
\* its average dated 2020-10-01; both have undefined averages before the peak
C10_Witness ==
    /\ case_column # ""
    /\ \E i, j \in DOMAIN county_prev_peak :
          LET early == {k \in RowsOf(CountyAt(i)) : Date(k) < PeakDate}
          IN  /\ IsFin(county_prev_peak[i].v) /\ IsFin(county_prev_peak[j].v)
              /\ IsNaN(Sma(First(early)))
              /\ FLess(Sma(Last(early)), county_prev_peak[i].v)
              /\ \E k \in RowsOf(CountyAt(j)) :
                    /\ Date(k) < PeakDate /\ IsFin(Sma(k))
                    /\ FLess(county_prev_peak[i].v, Sma(k))
              /\ \E k \in RowsOf(CountyAt(j)) :
                    /\ Date(k) = PeakDate /\ IsFin(Sma(k))
                    /\ FLess(county_prev_peak[j].v, Sma(k))

\* C1: the ratio is recent average / peak when both are defined and the peak
\* is not 0, and is 0 otherwise
C1_SafeRatio ==
    case_column # "" =>
        \A i \in DOMAIN county_curr_ave :
            LET a == county_curr_ave[i].v
                p == county_prev_peak[i].v
                r == counties_df[RatioColumn(case_column)][i]
            IN  IF IsFin(a) /\ IsFin(p) /\ p.n # 0
                THEN r = Fin(a.n * p.d, a.d * p.n)
                ELSE r = Zero

\* C2: the saved table has one row per county of the file and, in each of the
\* four ratio columns, a number in every row, 0 for a county without an
\* observation between 2020-10-01 and 2021-02-06
C2_CompleteOutput ==
    pc = "done" =>
        /\ Range(saved["FIPS"]) = Range(csv["fips"])
        /\ Len(saved["FIPS"]) = Cardinality(Range(csv["fips"]))
        /\ \A c \in Range(CallColumns) :
              /\ RatioColumn(c) \in DOMAIN saved
              /\ \A i \in DOMAIN saved["FIPS"] :
                    /\ IsFin(saved[RatioColumn(c)][i])
                    /\ {k \in RowsOf(saved["FIPS"][i]) :
                          Date(k) > PeakDate /\ Date(k) < CurrDate} = {}
                       => saved[RatioColumn(c)][i] = Zero

\* C8: a call leaves the series in its input column as it was
C8_InputKept ==
    [][\A c \in Range(CallColumns) : Calling(c) => covid_df'[c] = covid_df[c]]_vars

-----------------------------------------------------------------------------
\* Order of the calls

\* the frame the calls start from: the file with the incremental series and,
\* when the file has a column cases_new, the three recalibrated series
StartFrame ==
    LET d == SetColumn(csv, "daily_cases", DailyCases(csv))
    IN  IF "cases_new" \in DOMAIN csv
        THEN SetColumn(SetColumn(SetColumn(d,
                RecalColumns[1], Recalibrated(csv, RecalColumns[1])),
                RecalColumns[2], Recalibrated(csv, RecalColumns[2])),
                RecalColumns[3], Recalibrated(csv, RecalColumns[3]))
        ELSE d

\* the ratios of column c when its call is the first to be made
RatiosAlone(c) ==
    LET F == SortedKeys(csv["fips"])
    IN  [i \in DOMAIN F |->
            \* one smoothed frame serves both reductions
            CHOOSE r \in { safe_div(CurrAve(df, c, F[i]), PrevPeak(df, c, F[i])) :
                           df \in {Smoothed(StartFrame, c)} } : TRUE]

\* C7: whatever calls were made before it, a call stores the ratios its column
\* gives when called first; and it changes no other column's series or ratios
C7_OrderIndependent ==
    [][\A c \in Range(CallColumns) :
          Calling(c) =>
              /\ counties_df'[RatioColumn(c)] = RatiosAlone(c)
              /\ \A o \in Range(CallColumns) \ {c} :
                    /\ o \in DOMAIN covid_df => covid_df'[o] = covid_df[o]
                    /\ Called(o) => counties_df'[RatioColumn(o)]
                                      = counties_df[RatioColumn(o)]]_vars

\* all four calls made, the uncalibrated one last, with a county whose four
\* ratios are numbers and the uncalibrated one differs from a recalibrated one
C7_Witness ==
    /\ \A c \in Range(CallColumns) : Called(c)
    /\ case_column = "daily_cases"
    /\ \E i \in DOMAIN counties_df["FIPS"] :
          /\ \A c \in Range(CallColumns) : IsFin(counties_df[RatioColumn(c)][i])
          /\ counties_df["Curr to Peak"][i]
                # counties_df["Curr to Peak: Low Recalibration"][i]

====
